---- MODULE Spec2Model ----
(***************************************************************************)
(* Model of the upload-and-result client of the startup evaluation         *)
(* platform: the React component StartupEvaluator                          *)
(* (src/frontend/StartupEvaluator.tsx).                                    *)
(*                                                                         *)
(* The component state is the set of useState cells.  The asynchronous     *)
(* handler handleFileUpload is a coroutine: every click that passes the    *)
(* button's disabled attribute starts a run, and a run is suspended at     *)
(* each await (the one-second stage timer, then the axios.post promise).   *)
(* Each action below is one uninterrupted piece of JavaScript: an event    *)
(* handler, or the continuation of a run after an await.                   *)
(***************************************************************************)
EXTENDS Integers, Sequences, FiniteSets, TLC

\* ------------------------------------------------------------------ bounds
\* Number of handleFileUpload runs the user starts in one behaviour.
MaxSubmits == 2

\* ------------------------------------------------------- program constants
\* for (let i = 1; i <= 5; i++)
NumSteps == 5
\* timeout: 120000
TimeoutMs == 120000

\* JavaScript null / undefined for string-valued cells.
Null == "null"

\* `if (s)` on a string: null, undefined and "" are falsy.
Truthy(s) == s # Null /\ s # ""

\* ------------------------------------------------------------------- files
\* A MIME type is the sequence of its tokens, so that startsWith is a real
\* prefix test: "image/png" is <<"image", "/", "png">>.
PdfType == <<"application", "/", "pdf">>
ImagePrefix == <<"image", "/">>

StartsWith(s, p) ==
    /\ Len(s) >= Len(p)
    /\ \A k \in 1..Len(p) : s[k] = p[k]

\* The File objects the user can drop or pick; size is in bytes.
Files ==
    { [name |-> "deck.pdf",  type |-> PdfType, size |-> 2097152],
      [name |-> "logo.png",  type |-> <<"image", "/", "png">>,
       size |-> 12582912],
      [name |-> "notes.txt", type |-> <<"text", "/", "plain">>,
       size |-> 1024],
      [name |-> "data.bin",  type |-> <<>>, size |-> 0] }

\* useState<File | null>(null)
NoFile == [name |-> Null, type |-> <<>>, size |-> 0]

\* Variant: only PDF documents pass the type test.
AcceptedType_PdfOnly(t) == t = PdfType

\* droppedFile.type === 'application/pdf' || droppedFile.type.startsWith('image/')
AcceptedType(t) == t = PdfType \/ StartsWith(t, ImagePrefix)

\* ------------------------------------------------------------- evaluations
\* useState<EvaluationResult | null>(null)
NoEval == [startup_id |-> Null, investment_score |-> 0]

\* An optional number (arr_crore?: number): absent stands for both undefined
\* and null, which the render code does not tell apart.
Undefined == [present |-> FALSE, value |-> 0]
\* An optional string or list (risk_level?: string, red_flags?: string[]).
Missing == [present |-> FALSE, value |-> <<>>]
Some(v) == [present |-> TRUE, value |-> v]

\* risk_level is a sequence of characters, so that toLowerCase has work to do.
Low == <<"L", "o", "w">>
Medium == <<"M", "e", "d", "i", "u", "m">>
High == <<"H", "i", "g", "h">>
MediumHigh == Medium \o <<"-">> \o High

\* interface EvaluationResult, the fields the results section reads.
\* arr_crore, team_efficiency and overall_risk_score are fractional and are
\* held in thousandths (6.8 is 6800); the other numbers are integers.
EvaluationResult(id, arr, team, pct, eff, risk, level, flags, score, rec) ==
    [startup_id |-> id,
     extracted_data |-> [arr_crore |-> arr, team_size |-> team],
     sector_comparison |-> [arr_percentile |-> pct, team_efficiency |-> eff],
     risk_assessment |->
         [overall_risk_score |-> risk, risk_level |-> level,
          red_flags |-> flags],
     investment_score |-> score,
     investment_recommendation |-> rec]

\* The built-in sampleEvaluations (texts without their emoji).
sampleEvaluations ==
    { EvaluationResult("we360ai", Some(6800), Some(33), Some(85), Some(206),
          Some(25000), Some(Low), Some(<<>>), 88,
          "**STRONG RECOMMEND** - Excellent SaaS metrics"),
      EvaluationResult("drdoodley", Undefined, Some(40), Some(45), Undefined,
          Some(45000), Some(Medium),
          Some(<<"Capital intensive hospital model",
                 "Limited scalability of home visits">>), 58,
          "**CONDITIONAL RECOMMEND** - Innovative pet healthcare model"),
      EvaluationResult("cashvisory", Some(0), Some(5), Some(25), Some(0),
          Some(65000), Some(MediumHigh),
          Some(<<"No current ARR despite 13K users",
                 "Pre-revenue stage with high valuation">>), 42,
          "**PROCEED WITH CAUTION** - Early stage fintech") }

\* Bodies of successful responses of the evaluation endpoint: one with every
\* field filled, one with only the required fields.
Payloads ==
    { EvaluationResult("srv-1", Some(12500), Some(20), Some(70), Some(625),
          Some(30000), Some(Low), Some(<<>>), 88, "Recommend"),
      EvaluationResult("srv-2", Undefined, Undefined, Undefined, Undefined,
          Undefined, Missing, Missing, 35, Null) }

\* --------------------------------------------------------- results section
\* What JSX puts on the page is a sequence of pieces: a literal text, or a
\* number printed with dp decimals (n is the number times 10^dp).
Lit(str) == [kind |-> "text", s |-> str, n |-> 0, dp |-> 0]
Num(m, digits) == [kind |-> "number", s |-> "", n |-> m, dp |-> digits]

\* Number.prototype.toFixed on a value held in thousandths: the nearest
\* number with `digits` decimals.
toFixed(v, digits) ==
    LET unit == 10 ^ (3 - digits)
        q == v \div unit
        r == v % unit
    IN  Num(IF 2 * r >= unit THEN q + 1 ELSE q, digits)

\* String.prototype.toLowerCase
LowerCase ==
    ("A" :> "a") @@ ("B" :> "b") @@ ("C" :> "c") @@ ("D" :> "d") @@
    ("E" :> "e") @@ ("F" :> "f") @@ ("G" :> "g") @@ ("H" :> "h") @@
    ("I" :> "i") @@ ("J" :> "j") @@ ("K" :> "k") @@ ("L" :> "l") @@
    ("M" :> "m") @@ ("N" :> "n") @@ ("O" :> "o") @@ ("P" :> "p") @@
    ("Q" :> "q") @@ ("R" :> "r") @@ ("S" :> "s") @@ ("T" :> "t") @@
    ("U" :> "u") @@ ("V" :> "v") @@ ("W" :> "w") @@ ("X" :> "x") @@
    ("Y" :> "y") @@ ("Z" :> "z")

toLowerCase(str) ==
    [k \in 1..Len(str) |->
        IF str[k] \in DOMAIN LowerCase THEN LowerCase[str[k]] ELSE str[k]]

\* Variant: the second band starts above 60 instead of at 60.
getScoreColor_Above60(score) ==
    IF score >= 80 THEN "#34A853"
    ELSE IF score > 60 THEN "#FBBC04"
    ELSE IF score >= 40 THEN "#FF9800"
    ELSE "#EA4335"

\* const getScoreColor = (score: number): string
getScoreColor(score) ==
    IF score >= 80 THEN "#34A853"
    ELSE IF score >= 60 THEN "#FBBC04"
    ELSE IF score >= 40 THEN "#FF9800"
    ELSE "#EA4335"

\* Variant: the switch is on riskLevel itself, not on its lower-case form.
getRiskLevelColor_CaseSensitive(riskLevel) ==
    IF ~riskLevel.present THEN "#9AA0A6"
    ELSE CASE riskLevel.value = <<"l", "o", "w">> -> "#34A853"
           [] riskLevel.value = <<"m", "e", "d", "i", "u", "m">> -> "#FBBC04"
           [] riskLevel.value =
                 <<"m", "e", "d", "i", "u", "m", "-", "h", "i", "g", "h">>
                 -> "#FF9800"
           [] riskLevel.value = <<"h", "i", "g", "h">> -> "#EA4335"
           [] OTHER -> "#9AA0A6"

\* switch (riskLevel?.toLowerCase()): undefined matches no case.
getRiskLevelColor(riskLevel) ==
    IF ~riskLevel.present THEN "#9AA0A6"
    ELSE LET lower == toLowerCase(riskLevel.value)
         IN  CASE lower = <<"l", "o", "w">> -> "#34A853"
               [] lower = <<"m", "e", "d", "i", "u", "m">> -> "#FBBC04"
               [] lower =
                     <<"m", "e", "d", "i", "u", "m", "-", "h", "i", "g", "h">>
                     -> "#FF9800"
               [] lower = <<"h", "i", "g", "h">> -> "#EA4335"
               [] OTHER -> "#9AA0A6"

\* Variant: an absent value is formatted like the number zero.
formatCurrency_AbsentAsZero(value) ==
    IF ~value.present THEN <<Lit("Rs"), toFixed(0, 1), Lit("Cr")>>
    ELSE IF value.value = 0 THEN <<Lit("N/A")>>
    ELSE <<Lit("Rs"), toFixed(value.value, 1), Lit("Cr")>>

\* if (!value) return 'N/A'; return `Rs${value.toFixed(1)}Cr`, where "Rs"
\* stands for the rupee sign of the source.
formatCurrency(value) ==
    IF ~value.present \/ value.value = 0 THEN <<Lit("N/A")>>
    ELSE <<Lit("Rs"), toFixed(value.value, 1), Lit("Cr")>>

\* <span className="score-value">{evaluation.investment_score}</span>
\* <span className="score-max">/100</span>
scoreValue(e) == <<Num(e.investment_score, 0), Lit("/100")>>

\* {evaluation.sector_comparison.arr_percentile || 'N/A'}%
performanceValue(e) ==
    LET p == e.sector_comparison.arr_percentile
    IN  IF p.present /\ p.value # 0
        THEN <<Num(p.value, 0), Lit("%")>>
        ELSE <<Lit("N/A"), Lit("%")>>

\* getRiskLevelColor(evaluation.risk_assessment.risk_level || '')
riskBadge(e) ==
    LET l == e.risk_assessment.risk_level
    IN  getRiskLevelColor(IF l.present /\ l.value # <<>> THEN l ELSE Some(<<>>))

\* Score: {evaluation.risk_assessment.overall_risk_score?.toFixed(1)}
\* (React prints nothing for undefined.)
riskSubtitle(e) ==
    LET r == e.risk_assessment.overall_risk_score
    IN  <<Lit("Score: ")>> \o (IF r.present THEN <<toFixed(r.value, 1)>> ELSE <<>>)

\* {formatCurrency(evaluation.extracted_data.arr_crore)}
revenueValue(e) == formatCurrency(e.extracted_data.arr_crore)

\* Team: {evaluation.extracted_data.team_size} members
revenueSubtitle(e) ==
    LET t == e.extracted_data.team_size
    IN  <<Lit("Team: ")>> \o (IF t.present THEN <<Num(t.value, 0)>> ELSE <<>>)
           \o <<Lit(" members")>>

\* {evaluation.sector_comparison.team_efficiency?.toFixed(2) || 'N/A'}
\* (The string toFixed returns is never empty, so only undefined is falsy.)
efficiencyValue(e) ==
    LET t == e.sector_comparison.team_efficiency
    IN  IF t.present THEN <<toFixed(t.value, 2)>> ELSE <<Lit("N/A")>>

\* `Based on our analysis, this startup scores ${investment_score}/100 with
\*  ${risk_level?.toLowerCase()} risk level.`
fallbackSentence(e) ==
    LET l == e.risk_assessment.risk_level
        lower == toLowerCase(l.value)
    IN  <<Lit("Based on our analysis, this startup scores "),
          Num(e.investment_score, 0), Lit("/100 with ")>>
        \o (IF l.present THEN [k \in 1..Len(lower) |-> Lit(lower[k])]
                         ELSE <<Lit("undefined")>>)
        \o <<Lit(" risk level.")>>

\* Variant: the fallback replaces only an absent text (??), not an empty one.
recommendationText_AbsentOnly(e) ==
    IF e.investment_recommendation # Null
    THEN <<Lit(e.investment_recommendation)>>
    ELSE fallbackSentence(e)

\* {evaluation.investment_recommendation || `Based on ...`}
recommendationText(e) ==
    IF Truthy(e.investment_recommendation)
    THEN <<Lit(e.investment_recommendation)>>
    ELSE fallbackSentence(e)

\* Variant: the section is rendered for every list, the empty one included.
redFlagsSection_AnyList(e) ==
    LET f == e.risk_assessment.red_flags
    IN  IF f.present THEN Some(f.value) ELSE Missing

\* {red_flags && red_flags.length > 0 && <div className="red-flags-section">}
redFlagsSection(e) ==
    LET f == e.risk_assessment.red_flags
    IN  IF f.present /\ Len(f.value) > 0 THEN Some(f.value) ELSE Missing

\* Nothing of the results section is on the page.
NoRender ==
    [shown |-> FALSE, scoreColor |-> Null, scoreValue |-> <<>>,
     performanceValue |-> <<>>, riskBadge |-> Null, riskSubtitle |-> <<>>,
     revenueValue |-> <<>>, revenueSubtitle |-> <<>>,
     efficiencyValue |-> <<>>, recommendationText |-> <<>>,
     redFlagsSection |-> Missing]

\* <section className="results-section">
resultsSection(e) ==
    [shown |-> TRUE,
     scoreColor |-> getScoreColor(e.investment_score),
     scoreValue |-> scoreValue(e),
     performanceValue |-> performanceValue(e),
     riskBadge |-> riskBadge(e),
     riskSubtitle |-> riskSubtitle(e),
     revenueValue |-> revenueValue(e),
     revenueSubtitle |-> revenueSubtitle(e),
     efficiencyValue |-> efficiencyValue(e),
     recommendationText |-> recommendationText(e),
     redFlagsSection |-> redFlagsSection(e)]

\* ------------------------------------------------------------------ errors
\* What the catch clause can receive: error.code, error.response (status and
\* data.detail) and error.message.
NoResponse == [status |-> 0, detail |-> Null]
NoCaught == [code |-> Null, response |-> NoResponse, message |-> Null]

\* axios rejects with this when the 120000 ms ceiling passes.
TimeoutError ==
    [code |-> "ECONNABORTED", response |-> NoResponse,
     message |-> "timeout of 120000ms exceeded"]

Errors ==
    { [code |-> "ECONNREFUSED", response |-> NoResponse,
       message |-> "connect ECONNREFUSED"],
      [code |-> "ERR_NETWORK", response |-> NoResponse,
       message |-> "Network Error"],
      [code |-> "ERR_BAD_REQUEST",
       response |-> [status |-> 401, detail |-> Null],
       message |-> "Request failed with status code 401"],
      [code |-> "ERR_BAD_REQUEST",
       response |-> [status |-> 401, detail |-> "Invalid token"],
       message |-> "Request failed with status code 401"],
      [code |-> "ERR_BAD_REQUEST",
       response |-> [status |-> 413, detail |-> Null],
       message |-> "Request failed with status code 413"],
      [code |-> "ERR_BAD_REQUEST",
       response |-> [status |-> 413, detail |-> "Upload exceeds limit"],
       message |-> "Request failed with status code 413"],
      [code |-> "ERR_BAD_REQUEST",
       response |-> [status |-> 422, detail |-> "Unsupported document"],
       message |-> "Request failed with status code 422"],
      [code |-> "ERR_BAD_RESPONSE",
       response |-> [status |-> 500, detail |-> "Extraction failed"],
       message |-> "Request failed with status code 500"],
      [code |-> "ERR_BAD_RESPONSE",
       response |-> [status |-> 500, detail |-> ""],
       message |-> "Request failed with status code 500"],
      [code |-> "ERR_BAD_RESPONSE",
       response |-> [status |-> 500, detail |-> Null],
       message |-> "Request failed with status code 500"],
      [code |-> Null, response |-> NoResponse, message |-> Null] }

MsgDefault == "Evaluation failed. Please try again."
MsgConnect ==
    "Cannot connect to the server. Please check if the backend is running."
MsgAuth == "Authentication failed. Please check your credentials."
MsgTooLarge == "File too large. Please upload a file smaller than 10MB."
MsgNoFile == "Please select a file to upload"
MsgBadType == "Please upload a PDF or image file"

\* Variant: the 413 branch repeats the message of the 401 branch.
ErrorMessage_413AsAuth(err) ==
    IF err.code = "ECONNREFUSED" THEN MsgConnect
    ELSE IF err.response.status = 401 THEN MsgAuth
    ELSE IF err.response.status = 413 THEN MsgAuth
    ELSE IF Truthy(err.response.detail) THEN err.response.detail
    ELSE IF Truthy(err.message) THEN err.message
    ELSE MsgDefault

\* Variant: error.message is looked at before the detail of the response.
ErrorMessage_MessageFirst(err) ==
    IF err.code = "ECONNREFUSED" THEN MsgConnect
    ELSE IF err.response.status = 401 THEN MsgAuth
    ELSE IF err.response.status = 413 THEN MsgTooLarge
    ELSE IF Truthy(err.message) THEN err.message
    ELSE IF Truthy(err.response.detail) THEN err.response.detail
    ELSE MsgDefault

\* Variant: the chain has no error.message branch.
ErrorMessage_IgnoresMessage(err) ==
    IF err.code = "ECONNREFUSED" THEN MsgConnect
    ELSE IF err.response.status = 401 THEN MsgAuth
    ELSE IF err.response.status = 413 THEN MsgTooLarge
    ELSE IF Truthy(err.response.detail) THEN err.response.detail
    ELSE MsgDefault

\* The if / else-if chain of the catch clause.
ErrorMessage(err) ==
    IF err.code = "ECONNREFUSED" THEN MsgConnect
    ELSE IF err.response.status = 401 THEN MsgAuth
    ELSE IF err.response.status = 413 THEN MsgTooLarge
    ELSE IF Truthy(err.response.detail) THEN err.response.detail
    ELSE IF Truthy(err.message) THEN err.message
    ELSE MsgDefault

\* ---------------------------------------------------------------- requests
NoRequest ==
    [method |-> Null, path |-> Null, fields |-> <<>>,
     authorization |-> Null, timeout |-> 0]

\* Variant: the request is posted without the Authorization header.
PostEvaluate_NoBearer(formData) ==
    [method |-> "POST", path |-> "/evaluate",
     fields |-> <<[name |-> "file", value |-> formData]>>,
     authorization |-> Null,
     timeout |-> TimeoutMs]

\* formData.append('file', file); axios.post(`${MCP_SERVER_URL}/evaluate`, ...)
PostEvaluate(formData) ==
    [method |-> "POST", path |-> "/evaluate",
     fields |-> <<[name |-> "file", value |-> formData]>>,
     authorization |-> "Bearer demo-token-2025",
     timeout |-> TimeoutMs]

\* ------------------------------------------------------ deployment scripts
\* A script is the sequence of its commands, each named by the line it is
\* on, with the line of its closing success message and whether the script
\* runs under `set -e`.  A command in a for loop is there once per round.
\* echo without redirection, export and plain assignments of a text are left
\* out: they have nothing that fails.
Repeat(line, rounds) == [k \in 1..rounds |-> line]

Scripts ==
    { [name |-> "deploy-frontend (part_002)", errexit |-> FALSE,
       steps |-> <<10, 13>>, success |-> 141],
      [name |-> "deploy-existing (part_003)", errexit |-> TRUE,
       steps |-> <<25, 29, 44, 48>> \o Repeat(65, 10)
                 \o <<71, 75, 79, 85, 88, 131, 132, 136, 137, 140, 144, 145,
                      146, 158, 159, 163, 167, 175, 178, 182, 185, 186, 188,
                      196, 205>>,
       success |-> 208],
      [name |-> "backend/optimized_deploy.sh", errexit |-> TRUE,
       steps |-> <<22, 23, 27, 28, 29, 30, 31, 32, 33, 37, 41, 45, 47, 60,
                   65, 68, 71, 72, 75, 84, 106, 108, 119, 124, 125, 129, 133,
                   137, 141, 145>>,
       success |-> 149],
      [name |-> "deploy-github.sh", errexit |-> TRUE,
       steps |-> <<26, 27, 30, 31, 35, 48, 51>> \o Repeat(59, 8)
                 \o <<65, 69, 75, 78, 121, 122, 126, 127, 144, 153, 161>>,
       success |-> 164] }

\* No script is running.
NoScript == [name |-> Null, errexit |-> FALSE, steps |-> <<>>, success |-> 0]
NoDeploy ==
    [script |-> NoScript, pc |-> 0, exited |-> FALSE, failed |-> {},
     ranAfterFailure |-> FALSE, printed |-> 0]

\* -------------------------------------------------------------------- state
VARIABLES
    file,            \* useState<File | null>
    evaluation,      \* useState<EvaluationResult | null>
    loading,         \* useState<boolean>
    error,           \* useState<string | null>
    dragActive,      \* useState<boolean>
    processingStep,  \* useState<number>
    showSampleData,  \* useState<boolean>
    runs,            \* the runs of handleFileUpload, by order of start
    submits,         \* number of runs started
    requests,        \* number of axios.post calls made
    lastRequest,     \* the request of the latest axios.post call
    settled,         \* how the latest request ended
    resetInFlight,   \* the back button was clicked while that request was out
    rendered,        \* what the results section last put on the page
    deploy           \* the run of a deployment script

vars == <<file, evaluation, loading, error, dragActive, processingStep,
          showSampleData, runs, submits, requests, lastRequest, settled,
          resetInFlight, rendered, deploy>>

RunIds == 1..MaxSubmits

\* A run that has not started, and a run that has returned.
IdleRun == [pc |-> "unused", i |-> 0, formData |-> NoFile]
DoneRun == [pc |-> "done", i |-> 0, formData |-> NoFile]

NotSettled == [kind |-> "none", data |-> NoEval, caught |-> NoCaught]

Active == {id \in RunIds : runs[id].pc \in {"timer", "request"}}
InFlight == {id \in RunIds : runs[id].pc = "request"}

\* ----------------------------------------------------------------- render
\* Variant: the button is disabled only while no file is selected.
uploadBtnDisabled_IgnoresLoading == file = NoFile

\* <button className="upload-btn" disabled={!file || loading}>
uploadBtnDisabled == file = NoFile \/ loading

\* {loading && <div className="processing-steps">}
ProgressView == loading

\* {evaluation && <section className="results-section">}
ResultsView == evaluation # NoEval

\* {showSampleData && !evaluation && <section className="sample-data-section">}
SampleView == showSampleData /\ evaluation = NoEval

\* -------------------------------------------------------------------- init
Init ==
    /\ file = NoFile
    /\ evaluation = NoEval
    /\ loading = FALSE
    /\ error = Null
    /\ dragActive = FALSE
    /\ processingStep = 0
    /\ showSampleData = TRUE
    /\ runs = [id \in RunIds |-> IdleRun]
    /\ submits = 0
    /\ requests = 0
    /\ lastRequest = NoRequest
    /\ settled = NotSettled
    /\ resetInFlight = FALSE
    /\ rendered = NoRender
    /\ deploy = NoDeploy

\* ---------------------------------------------------------- event handlers
\* dragenter / dragover / dragleave on the drop zone.
handleDrag ==
    /\ \E type \in {"dragenter", "dragover", "dragleave"} :
          dragActive' = IF type = "dragleave" THEN FALSE ELSE TRUE
    /\ UNCHANGED <<deploy, rendered,
                   file, evaluation, loading, error, processingStep,
                   showSampleData, runs, submits, requests, lastRequest,
                   settled, resetInFlight>>

\* Variant: a file of a wrong type is reported and selected all the same.
dropFile_SelectsRejected(droppedFile) ==
    /\ dragActive' = FALSE
    /\ IF droppedFile = NoFile
       THEN UNCHANGED <<file, error>>
       ELSE IF AcceptedType(droppedFile.type)
       THEN file' = droppedFile /\ error' = Null
       ELSE error' = MsgBadType /\ file' = droppedFile
    /\ UNCHANGED <<deploy, rendered, evaluation, loading, processingStep,
                   showSampleData, runs, submits, requests, lastRequest,
                   settled, resetInFlight>>

\* handleDrop for a drop whose first file is droppedFile (NoFile: the drop
\* carries no file).
dropFile(droppedFile) ==
    /\ dragActive' = FALSE
    /\ IF droppedFile = NoFile
       THEN UNCHANGED <<file, error>>
       ELSE IF AcceptedType(droppedFile.type)
       THEN file' = droppedFile /\ error' = Null
       ELSE error' = MsgBadType /\ UNCHANGED file
    /\ UNCHANGED <<deploy, rendered,
                   evaluation, loading, processingStep, showSampleData,
                   runs, submits, requests, lastRequest, settled,
                   resetInFlight>>

\* drop on the drop zone; a drop can carry no file at all.
handleDrop ==
    \E droppedFile \in Files \cup {NoFile} : dropFile(droppedFile)

\* handleFileChange for a dialog closed with the file picked.
changeFile(picked) ==
    /\ file' = picked
    /\ error' = Null
    /\ UNCHANGED <<deploy, rendered,
                   evaluation, loading, dragActive, processingStep,
                   showSampleData, runs, submits, requests, lastRequest,
                   settled, resetInFlight>>

\* change event of the <input type="file">; the accept attribute only
\* filters what the dialog lists, the user can still pick any file.
handleFileChange ==
    \E picked \in Files : changeFile(picked)

\* Variant: the click shows the sample and leaves showSampleData as it is.
viewSampleEvaluation_KeepsSamples ==
    /\ SampleView
    /\ \E sampleEvaluation \in sampleEvaluations :
          evaluation' = sampleEvaluation
    /\ UNCHANGED <<deploy, rendered,
                   showSampleData, file, loading, error, dragActive,
                   processingStep, runs, submits, requests, lastRequest,
                   settled, resetInFlight>>

\* click on a sample card, rendered only in the sample view.
viewSampleEvaluation ==
    /\ SampleView
    /\ \E sampleEvaluation \in sampleEvaluations :
          evaluation' = sampleEvaluation
    /\ showSampleData' = FALSE
    /\ UNCHANGED <<deploy, rendered,
                   file, loading, error, dragActive, processingStep, runs,
                   submits, requests, lastRequest, settled, resetInFlight>>

\* click on "Back to Upload", rendered only in the results view.
backBtnOnClick ==
    /\ ResultsView
    /\ evaluation' = NoEval
    /\ showSampleData' = TRUE
    /\ file' = NoFile
    /\ resetInFlight' = (resetInFlight \/ InFlight # {})
    /\ UNCHANGED <<deploy, rendered,
                   loading, error, dragActive, processingStep, runs,
                   submits, requests, lastRequest, settled>>

\* -------------------------------------------------------- handleFileUpload
\* Variant: the finally block resets the stage but leaves loading set.
Finally_KeepsLoading ==
    /\ processingStep' = 0
    /\ UNCHANGED loading

\* Variant: the finally block ends loading but leaves the stage where it is.
Finally_KeepsStep ==
    /\ loading' = FALSE
    /\ UNCHANGED processingStep

\* finally { setLoading(false); setProcessingStep(0); }
Finally ==
    /\ loading' = FALSE
    /\ processingStep' = 0

\* Variant: the request is posted at once and the stages run beside it.
handleFileUpload_PostsFirst ==
    /\ ~uploadBtnDisabled
    /\ submits < MaxSubmits
    /\ file # NoFile
    /\ loading' = TRUE
    /\ error' = Null
    /\ processingStep' = 1
    /\ submits' = submits + 1
    /\ runs' = [runs EXCEPT ![submits + 1] =
                  [pc |-> "request", i |-> 1, formData |-> file]]
    /\ requests' = requests + 1
    /\ lastRequest' = PostEvaluate(file)
    /\ settled' = NotSettled
    /\ resetInFlight' = FALSE
    /\ UNCHANGED <<deploy, rendered,
                   file, evaluation, dragActive, showSampleData>>

\* Variant: the handler is reachable while a run is in progress.
handleFileUpload_WhileLoading ==
    /\ file # NoFile
    /\ submits < MaxSubmits
    /\ loading' = TRUE
    /\ error' = Null
    /\ processingStep' = 1
    /\ submits' = submits + 1
    /\ runs' = [runs EXCEPT ![submits + 1] =
                  [pc |-> "timer", i |-> 1, formData |-> file]]
    /\ settled' = NotSettled
    /\ resetInFlight' = FALSE
    /\ UNCHANGED <<deploy, rendered,
                   file, evaluation, dragActive, showSampleData, requests,
                   lastRequest>>

\* Variant: the handler starts the stages without setLoading(true).
handleFileUpload_NoLoading ==
    /\ ~uploadBtnDisabled
    /\ submits < MaxSubmits
    /\ IF file = NoFile
       THEN /\ error' = MsgNoFile
            /\ UNCHANGED <<processingStep, runs, submits, settled,
                           resetInFlight>>
       ELSE /\ error' = Null
            /\ processingStep' = 1
            /\ submits' = submits + 1
            /\ runs' = [runs EXCEPT ![submits + 1] =
                          [pc |-> "timer", i |-> 1, formData |-> file]]
            /\ settled' = NotSettled
            /\ resetInFlight' = FALSE
    /\ UNCHANGED <<deploy, rendered, loading, file, evaluation, dragActive,
                   showSampleData, requests, lastRequest>>

\* click on the upload button: the handler runs up to its first await, which
\* is the timer of stage 1.
handleFileUpload ==
    /\ ~uploadBtnDisabled
    /\ submits < MaxSubmits
    /\ IF file = NoFile
       THEN /\ error' = MsgNoFile
            /\ UNCHANGED <<loading, processingStep, runs, submits, settled,
                           resetInFlight>>
       ELSE /\ loading' = TRUE
            /\ error' = Null
            /\ processingStep' = 1
            /\ submits' = submits + 1
            /\ runs' = [runs EXCEPT ![submits + 1] =
                          [pc |-> "timer", i |-> 1, formData |-> file]]
            /\ settled' = NotSettled
            /\ resetInFlight' = FALSE
    /\ UNCHANGED <<deploy, rendered,
                   file, evaluation, dragActive, showSampleData, requests,
                   lastRequest>>

\* Variant: the loop counts in steps of two while it can.
stageTimer_SkipsStage ==
    \E id \in RunIds :
       /\ runs[id].pc = "timer"
       /\ IF runs[id].i + 1 <= NumSteps
          THEN LET next == IF runs[id].i + 2 <= NumSteps
                           THEN runs[id].i + 2
                           ELSE runs[id].i + 1
               IN  /\ processingStep' = next
                   /\ runs' = [runs EXCEPT ![id].i = next]
                   /\ UNCHANGED <<requests, lastRequest>>
          ELSE /\ runs' = [runs EXCEPT ![id].pc = "request",
                                       ![id].i = runs[id].i + 1]
               /\ requests' = requests + 1
               /\ lastRequest' = PostEvaluate(runs[id].formData)
               /\ UNCHANGED processingStep
       /\ UNCHANGED <<deploy, rendered,
                      file, evaluation, loading, error, dragActive,
                      showSampleData, submits, settled, resetInFlight>>

\* the one-second timer of stage i fires: next stage, or the request.
stageTimer ==
    \E id \in RunIds :
       /\ runs[id].pc = "timer"
       /\ IF runs[id].i + 1 <= NumSteps
          THEN /\ processingStep' = runs[id].i + 1
               /\ runs' = [runs EXCEPT ![id].i = runs[id].i + 1]
               /\ UNCHANGED <<requests, lastRequest>>
          ELSE /\ runs' = [runs EXCEPT ![id].pc = "request",
                                       ![id].i = runs[id].i + 1]
               /\ requests' = requests + 1
               /\ lastRequest' = PostEvaluate(runs[id].formData)
               /\ UNCHANGED processingStep
       /\ UNCHANGED <<deploy, rendered,
                      file, evaluation, loading, error, dragActive,
                      showSampleData, submits, settled, resetInFlight>>

\* const response = await axios.post(...) returns: setEvaluation(response.data),
\* setShowSampleData(false), then finally.
Response(id, data) ==
    /\ runs[id].pc = "request"
    /\ evaluation' = data
    /\ showSampleData' = FALSE
    /\ Finally
    /\ runs' = [runs EXCEPT ![id] = DoneRun]
    /\ settled' = [kind |-> "resolved", data |-> data, caught |-> NoCaught]
    /\ UNCHANGED <<deploy, rendered, file, error, dragActive, submits, requests,
                   lastRequest, resetInFlight>>

\* the request succeeds.
axiosResolve ==
    \E id \in RunIds, data \in Payloads : Response(id, data)

\* Variant: the catch clause posts the request again.
Catch_Retries(id, err) ==
    /\ runs[id].pc = "request"
    /\ error' = ErrorMessage(err)
    /\ requests' = requests + 1
    /\ lastRequest' = PostEvaluate(runs[id].formData)
    /\ settled' = [kind |-> "rejected", data |-> NoEval, caught |-> err]
    /\ UNCHANGED <<deploy, rendered,
                   file, evaluation, loading, dragActive, processingStep,
                   showSampleData, runs, submits, resetInFlight>>

\* Variant: the catch clause also takes the displayed evaluation away.
Catch_ClearsEvaluation(id, err) ==
    /\ runs[id].pc = "request"
    /\ error' = ErrorMessage(err)
    /\ evaluation' = NoEval
    /\ showSampleData' = TRUE
    /\ Finally
    /\ runs' = [runs EXCEPT ![id] = DoneRun]
    /\ settled' = [kind |-> "rejected", data |-> NoEval, caught |-> err]
    /\ UNCHANGED <<deploy, rendered, file, dragActive, submits, requests,
                   lastRequest, resetInFlight>>

\* catch (error) { ... setError(errorMessage) }, then finally.
Catch(id, err) ==
    /\ runs[id].pc = "request"
    /\ error' = ErrorMessage(err)
    /\ Finally
    /\ runs' = [runs EXCEPT ![id] = DoneRun]
    /\ settled' = [kind |-> "rejected", data |-> NoEval, caught |-> err]
    /\ UNCHANGED <<deploy, rendered,
                   file, evaluation, dragActive, showSampleData, submits,
                   requests, lastRequest, resetInFlight>>

\* the request fails: no connection, or an HTTP error status.
axiosReject ==
    \E id \in RunIds, err \in Errors : Catch(id, err)

\* Variant: the request has no timeout option, the ceiling never passes.
axiosTimeout_NoCeiling ==
    /\ FALSE
    /\ UNCHANGED vars

\* no answer within the wait ceiling: axios abandons the request.
axiosTimeout ==
    \E id \in RunIds : Catch(id, TimeoutError)

\* -------------------------------------------------------------------- spec
Next ==
    \/ handleDrag
    \/ handleDrop
    \/ handleFileChange
    \/ viewSampleEvaluation
    \/ backBtnOnClick
    \/ handleFileUpload
    \/ stageTimer
    \/ axiosResolve
    \/ axiosReject
    \/ axiosTimeout

Spec == Init /\ [][Next]_vars

\* Timers fire: the stage timers, and the timer of the timeout option while
\* the request is still pending.  The server may never answer.
FairSpec ==
    /\ Spec
    /\ WF_vars(stageTimer)
    /\ WF_vars(axiosTimeout)

\* ======================================================================
\* The second client of the repository: the component App
\* (src/unnamed/part_001).  It keeps file, evaluation, loading, error and
\* dragActive in the same kind of cells, has no stage display and no sample
\* view, and posts the request as soon as the button is clicked.
\* ======================================================================
App_NoEval == [startup_id |-> Null, overall_score |-> 0]

\* Bodies of successful responses of /evaluate-startup.
App_Payloads ==
    { [startup_id |-> "srv-1", overall_score |-> 88],
      [startup_id |-> "srv-2", overall_score |-> 35] }

App_MsgNoFile == "Please select a PDF file to upload."
App_MsgBadType == "Please upload a PDF file only."
App_MsgDefault == "Failed to process PDF. Please try again."

\* droppedFile.type === 'application/pdf'
App_AcceptedType(t) == t = PdfType

\* err.response?.data?.detail || 'Failed to process PDF. Please try again.'
App_ErrorMessage(err) ==
    IF Truthy(err.response.detail) THEN err.response.detail
    ELSE App_MsgDefault

\* const getScoreColor = (score: number) of App
App_getScoreColor(score) ==
    IF score >= 80 THEN "#4CAF50"
    ELSE IF score >= 60 THEN "#FF9800"
    ELSE "#F44336"

\* <div className="results-section">: the score circle
App_resultsSection(e) ==
    [NoRender EXCEPT !.shown = TRUE,
                     !.scoreColor = App_getScoreColor(e.overall_score),
                     !.scoreValue = <<Num(e.overall_score, 0), Lit("/100")>>]

\* axios.post(`${BACKEND_URL}/evaluate-startup`, formData, ...): no
\* Authorization header.
App_PostEvaluate(formData) ==
    [method |-> "POST", path |-> "/evaluate-startup",
     fields |-> <<[name |-> "file", value |-> formData]>>,
     authorization |-> Null,
     timeout |-> TimeoutMs]

App_NotSettled == [kind |-> "none", data |-> App_NoEval, caught |-> NoCaught]

\* <button className="upload-btn" disabled={!file || loading}>
App_uploadBtnDisabled == file = NoFile \/ loading

\* {evaluation && <div className="results-section">}
App_ResultsView == evaluation # App_NoEval

\* resetUpload is behind three controls: remove-file (shown with a file),
\* reset-btn (shown with a file, disabled while loading) and
\* analyze-another-btn (shown with a result).
App_resetEnabled == file # NoFile \/ App_ResultsView

App_Init ==
    /\ file = NoFile
    /\ evaluation = App_NoEval
    /\ loading = FALSE
    /\ error = Null
    /\ dragActive = FALSE
    /\ processingStep = 0
    /\ showSampleData = TRUE
    /\ runs = [id \in RunIds |-> IdleRun]
    /\ submits = 0
    /\ requests = 0
    /\ lastRequest = NoRequest
    /\ settled = App_NotSettled
    /\ resetInFlight = FALSE
    /\ rendered = NoRender
    /\ deploy = NoDeploy

App_handleDrop ==
    /\ dragActive' = FALSE
    /\ \E droppedFile \in Files \cup {NoFile} :
          IF droppedFile = NoFile
          THEN UNCHANGED <<file, error>>
          ELSE IF App_AcceptedType(droppedFile.type)
          THEN file' = droppedFile /\ error' = Null
          ELSE error' = App_MsgBadType /\ UNCHANGED file
    /\ UNCHANGED <<deploy, rendered,
                   evaluation, loading, processingStep, showSampleData,
                   runs, submits, requests, lastRequest, settled,
                   resetInFlight>>

App_handleFileSelect ==
    /\ \E selectedFile \in Files :
          IF App_AcceptedType(selectedFile.type)
          THEN file' = selectedFile /\ error' = Null
          ELSE error' = App_MsgBadType /\ UNCHANGED file
    /\ UNCHANGED <<deploy, rendered,
                   evaluation, loading, dragActive, processingStep,
                   showSampleData, runs, submits, requests, lastRequest,
                   settled, resetInFlight>>

App_resetUpload ==
    /\ App_resetEnabled
    /\ file' = NoFile
    /\ evaluation' = App_NoEval
    /\ error' = Null
    /\ resetInFlight' = (resetInFlight \/ InFlight # {})
    /\ UNCHANGED <<deploy, rendered,
                   loading, dragActive, processingStep, showSampleData,
                   runs, submits, requests, lastRequest, settled>>

\* click on the upload button: the handler runs up to await axios.post.
App_handleUpload ==
    /\ ~App_uploadBtnDisabled
    /\ submits < MaxSubmits
    /\ IF file = NoFile
       THEN /\ error' = App_MsgNoFile
            /\ UNCHANGED <<loading, runs, submits, requests, lastRequest,
                           settled, resetInFlight>>
       ELSE /\ loading' = TRUE
            /\ error' = Null
            /\ submits' = submits + 1
            /\ runs' = [runs EXCEPT ![submits + 1] =
                          [pc |-> "request", i |-> 0, formData |-> file]]
            /\ requests' = requests + 1
            /\ lastRequest' = App_PostEvaluate(file)
            /\ settled' = App_NotSettled
            /\ resetInFlight' = FALSE
    /\ UNCHANGED <<deploy, rendered,
                   file, evaluation, dragActive, processingStep,
                   showSampleData>>

\* setEvaluation(response.data); finally { setLoading(false) }
App_Response(id, data) ==
    /\ runs[id].pc = "request"
    /\ evaluation' = data
    /\ loading' = FALSE
    /\ runs' = [runs EXCEPT ![id] = DoneRun]
    /\ settled' = [kind |-> "resolved", data |-> data, caught |-> NoCaught]
    /\ UNCHANGED <<deploy, rendered, file, error, dragActive, processingStep,
                   showSampleData, submits, requests, lastRequest,
                   resetInFlight>>

\* the request succeeds.
App_axiosResolve ==
    \E id \in RunIds, data \in App_Payloads : App_Response(id, data)

\* catch (err) { setError(...) } finally { setLoading(false) }
App_Catch(id, err) ==
    /\ runs[id].pc = "request"
    /\ error' = App_ErrorMessage(err)
    /\ loading' = FALSE
    /\ runs' = [runs EXCEPT ![id] = DoneRun]
    /\ settled' = [kind |-> "rejected", data |-> App_NoEval, caught |-> err]
    /\ UNCHANGED <<deploy, rendered,
                   file, evaluation, dragActive, processingStep,
                   showSampleData, submits, requests, lastRequest,
                   resetInFlight>>

App_axiosReject ==
    \E id \in RunIds, err \in Errors : App_Catch(id, err)

App_axiosTimeout ==
    \E id \in RunIds : App_Catch(id, TimeoutError)

App_Next ==
    \/ handleDrag
    \/ App_handleDrop
    \/ App_handleFileSelect
    \/ App_resetUpload
    \/ App_handleUpload
    \/ App_axiosResolve
    \/ App_axiosReject
    \/ App_axiosTimeout

App_Spec == App_Init /\ [][App_Next]_vars

App_FairSpec ==
    /\ App_Spec
    /\ WF_vars(App_axiosTimeout)

\* ------------------------------------------------------------ both clients
\* The repository has the two clients; a behaviour is a behaviour of the one
\* that is mounted.  The evaluation cell tells which: App's EvaluationResult
\* has overall_score, StartupEvaluator's has investment_score.
AppMounted == "overall_score" \in DOMAIN evaluation

ClientsInit == Init \/ App_Init

ClientsNext ==
    \/ ~AppMounted /\ handleDrag
    \/ ~AppMounted /\ handleDrop
    \/ ~AppMounted /\ handleFileChange
    \/ ~AppMounted /\ viewSampleEvaluation
    \/ ~AppMounted /\ backBtnOnClick
    \/ ~AppMounted /\ handleFileUpload
    \/ ~AppMounted /\ stageTimer
    \/ ~AppMounted /\ axiosResolve
    \/ ~AppMounted /\ axiosReject
    \/ ~AppMounted /\ axiosTimeout
    \/ AppMounted /\ handleDrag
    \/ AppMounted /\ App_handleDrop
    \/ AppMounted /\ App_handleFileSelect
    \/ AppMounted /\ App_resetUpload
    \/ AppMounted /\ App_handleUpload
    \/ AppMounted /\ App_axiosResolve
    \/ AppMounted /\ App_axiosReject
    \/ AppMounted /\ App_axiosTimeout

ClientsSpec == ClientsInit /\ [][ClientsNext]_vars

\* ---------------------------------------------------- rendering a response
\* The results section as a function of the response body.  The behaviours
\* start with the first request on the wire; the response body ranges over
\* the inputs below, and the results section is then rendered from it.

\* How far the scores tried lie outside 0..100.
ScoreSlack == 10
Scores == (0 - ScoreSlack)..(100 + ScoreSlack)

\* risk_level values: the four labels in several spellings, and others.
RiskLevels ==
    { Missing, Some(<<>>),
      Some(Low), Some(Medium), Some(MediumHigh), Some(High),
      Some(<<"l", "o", "w">>), Some(<<"L", "O", "W">>),
      Some(<<"m", "E", "d", "I", "u", "M">>),
      Some(<<"M", "E", "D", "I", "U", "M", "-", "H", "I", "G", "H">>),
      Some(<<"h", "i", "g", "H">>),
      Some(<<" ", "l", "o", "w">>),
      Some(<<"C", "r", "i", "t", "i", "c", "a", "l">>) }

RedFlagLists ==
    { Missing, Some(<<>>), Some(<<"No audited financials">>),
      Some(<<"No audited financials", "Single customer">>) }

Recommendations == { Null, "", "Recommend", "N/A" }

\* Response bodies: every score; every combination of absent, zero and
\* non-zero numeric fields; every risk level, red-flag list and
\* recommendation.
RenderInputs ==
    { EvaluationResult("srv-score", Some(12540), Some(20), Some(70),
          Some(626), Some(30040), Some(Low), Some(<<>>), score, "Recommend") :
        score \in Scores }
    \cup
    { EvaluationResult("srv-fields", arr, team, pct, eff, risk, Some(Low),
          Some(<<>>), 88, "Recommend") :
        arr \in {Undefined, Some(0), Some(12540)},
        team \in {Undefined, Some(0), Some(20)},
        pct \in {Undefined, Some(0), Some(70)},
        eff \in {Undefined, Some(0), Some(626)},
        risk \in {Undefined, Some(0), Some(30040)} }
    \cup
    { EvaluationResult("srv-texts", Some(12540), Some(20), Some(70),
          Some(626), Some(30040), level, flags, 58, rec) :
        level \in RiskLevels, flags \in RedFlagLists,
        rec \in Recommendations }

App_RenderInputs ==
    { [startup_id |-> "srv-score", overall_score |-> score] :
        score \in Scores }

\* The first run of handleFileUpload (of handleUpload for App) awaits the
\* response of its request.
RenderInit ==
    /\ file \in {f \in Files : f.type = PdfType}
    /\ loading = TRUE
    /\ error = Null
    /\ dragActive = FALSE
    /\ showSampleData = TRUE
    /\ submits = 1
    /\ requests = 1
    /\ resetInFlight = FALSE
    /\ rendered = NoRender
    /\ deploy = NoDeploy
    /\ \/ /\ evaluation = NoEval
          /\ processingStep = NumSteps
          /\ runs = [id \in RunIds |->
                       IF id = 1
                       THEN [pc |-> "request", i |-> NumSteps + 1,
                             formData |-> file]
                       ELSE IdleRun]
          /\ lastRequest = PostEvaluate(file)
          /\ settled = NotSettled
       \/ /\ evaluation = App_NoEval
          /\ processingStep = 0
          /\ runs = [id \in RunIds |->
                       IF id = 1
                       THEN [pc |-> "request", i |-> 0, formData |-> file]
                       ELSE IdleRun]
          /\ lastRequest = App_PostEvaluate(file)
          /\ settled = App_NotSettled

\* the response of the evaluation endpoint arrives.
renderResponse ==
    /\ lastRequest.path = "/evaluate"
    /\ \E id \in RunIds, data \in RenderInputs : Response(id, data)

\* React renders {evaluation && <section className="results-section">}.
renderResults ==
    /\ lastRequest.path = "/evaluate"
    /\ ResultsView
    /\ rendered' = resultsSection(evaluation)
    /\ UNCHANGED <<deploy, file, evaluation, loading, error, dragActive,
                   processingStep, showSampleData, runs, submits, requests,
                   lastRequest, settled, resetInFlight>>

App_renderResponse ==
    /\ lastRequest.path = "/evaluate-startup"
    /\ \E id \in RunIds, data \in App_RenderInputs : App_Response(id, data)

\* React renders {evaluation && <div className="results-section">} of App.
App_renderResults ==
    /\ lastRequest.path = "/evaluate-startup"
    /\ App_ResultsView
    /\ rendered' = App_resultsSection(evaluation)
    /\ UNCHANGED <<deploy, file, evaluation, loading, error, dragActive,
                   processingStep, showSampleData, runs, submits, requests,
                   lastRequest, settled, resetInFlight>>

RenderNext ==
    \/ renderResponse
    \/ renderResults
    \/ App_renderResponse
    \/ App_renderResults

RenderSpec == RenderInit /\ [][RenderNext]_vars

\* ------------------------------------------------- running a deploy script
\* bash runs the commands of a script one after the other.  A command that
\* returns non-zero ends the script when it runs under `set -e`; otherwise
\* bash goes on with the next command.
DeployInit ==
    /\ file = NoFile
    /\ evaluation = NoEval
    /\ loading = FALSE
    /\ error = Null
    /\ dragActive = FALSE
    /\ processingStep = 0
    /\ showSampleData = TRUE
    /\ runs = [id \in RunIds |-> IdleRun]
    /\ submits = 0
    /\ requests = 0
    /\ lastRequest = NoRequest
    /\ settled = NotSettled
    /\ resetInFlight = FALSE
    /\ rendered = NoRender
    /\ deploy \in {[NoDeploy EXCEPT !.script = script, !.pc = 1] :
                      script \in Scripts}

\* The script has a next command to run.
AtCommand ==
    /\ deploy.script # NoScript
    /\ ~deploy.exited
    /\ deploy.pc <= Len(deploy.script.steps)

commandSucceeds ==
    /\ AtCommand
    /\ deploy' = [deploy EXCEPT
                     !.pc = @ + 1,
                     !.ranAfterFailure = @ \/ deploy.failed # {}]
    /\ UNCHANGED <<file, evaluation, loading, error, dragActive,
                   processingStep, showSampleData, runs, submits, requests,
                   lastRequest, settled, resetInFlight, rendered>>

commandFails ==
    /\ AtCommand
    /\ deploy' = [deploy EXCEPT
                     !.failed = @ \cup {deploy.pc},
                     !.ranAfterFailure = @ \/ deploy.failed # {},
                     !.exited = deploy.script.errexit,
                     !.pc = IF deploy.script.errexit THEN @ ELSE @ + 1]
    /\ UNCHANGED <<file, evaluation, loading, error, dragActive,
                   processingStep, showSampleData, runs, submits, requests,
                   lastRequest, settled, resetInFlight, rendered>>

\* the closing echo of the success message.
echoSuccess ==
    /\ deploy.script # NoScript
    /\ ~deploy.exited
    /\ deploy.pc = Len(deploy.script.steps) + 1
    /\ deploy.printed = 0
    /\ deploy' = [deploy EXCEPT !.printed = deploy.script.success]
    /\ UNCHANGED <<file, evaluation, loading, error, dragActive,
                   processingStep, showSampleData, runs, submits, requests,
                   lastRequest, settled, resetInFlight, rendered>>

DeployNext ==
    \/ commandSucceeds
    \/ commandFails
    \/ echoSuccess

DeploySpec == DeployInit /\ [][DeployNext]_vars

TypeOK ==
    /\ file \in Files \cup {NoFile}
    /\ evaluation \in sampleEvaluations \cup Payloads \cup {NoEval}
    /\ loading \in BOOLEAN
    /\ dragActive \in BOOLEAN
    /\ showSampleData \in BOOLEAN
    /\ processingStep \in 0..NumSteps
    /\ submits \in 0..MaxSubmits
    /\ requests \in 0..MaxSubmits

\* ------------------------------------------------------------------ claims
\* A run of handleFileUpload ends in this step, with a response ...
Resolves == settled.kind = "none" /\ settled'.kind = "resolved"
\* ... or in the catch clause.
Rejects == settled.kind = "none" /\ settled'.kind = "rejected"

\* The file a request carries in its multipart body.
CarriedTypes(req) == {req.fields[k].value.type : k \in DOMAIN req.fields}

\* C1: a file whose MIME type is neither application/pdf nor image/* never
\* becomes the selected file, whichever input path offered it, and no request
\* ever carries such a file.
C1_UnsupportedTypeRejected ==
    /\ file # NoFile => AcceptedType(file.type)
    /\ \A t \in CarriedTypes(lastRequest) : AcceptedType(t)

\* C2: at most one run of handleFileUpload is in progress and at most one
\* request is in flight; a run is in progress exactly while loading is true,
\* and the submit control is disabled all that time.
C2_OneRequestInFlight ==
    /\ Cardinality(Active) <= 1
    /\ Cardinality(InFlight) <= 1
    /\ loading <=> Active # {}
    /\ Active # {} => uploadBtnDisabled

\* A second submission has its request in flight while the user has already
\* selected another file.
C2_Witness ==
    /\ InFlight # {}
    /\ submits = 2
    /\ file # NoFile
    /\ file.type \notin CarriedTypes(lastRequest)

\* C3: a successful response that arrives when all five stages have been
\* shown puts the payload in evaluation, ends loading, resets the stage to 0
\* and replaces the progress view by the results view.
C3_SlowResponseShowsResult ==
    [][(Resolves /\ processingStep = NumSteps /\ ProgressView)
         => /\ evaluation' = settled'.data
            /\ evaluation' \in Payloads
            /\ loading' = FALSE
            /\ processingStep' = 0
            /\ ResultsView'
            /\ ~ProgressView'
            /\ ~SampleView']_vars

\* The result of a response is on display and the progress view is gone.
C3_Witness ==
    /\ settled.kind = "resolved"
    /\ evaluation = settled.data
    /\ evaluation \in Payloads
    /\ ~loading
    /\ processingStep = 0

\* C4: a response that arrives after the client was reset while the request
\* was outstanding is ignored: it does not set evaluation, and a client that
\* was in the selection view stays there with no result displayed.
C4_LateResponseIgnored ==
    [][(Resolves /\ resetInFlight)
         => /\ evaluation' = evaluation
            /\ evaluation' \notin Payloads
            /\ ~ResultsView => ~ResultsView']_vars

\* C5: leaving the results view by reset leaves file, evaluation and error
\* all null and shows the selection view.
C5_ResetClearsAll ==
    [][(ResultsView /\ ~ResultsView')
         => /\ file' = NoFile
            /\ evaluation' = NoEval
            /\ error' = Null
            /\ SampleView']_vars

C7_NoAutomaticRetry ==
    /\ requests <= submits
    /\ settled.kind = "rejected" => (Active = {} /\ requests = submits)

\* A failed submission, with exactly the one request it posted.
C7_Witness ==
    /\ settled.kind = "rejected"
    /\ submits = 1
    /\ requests = 1
    /\ error = ErrorMessage(settled.caught)

\* C8: every submission ends.  Once loading is true it becomes false again,
\* and then either the response is the result on display or the failure,
\* the abandonment at the timeout included, is the error on display.
C8_SubmissionTerminates ==
    loading ~>
       (/\ ~loading
        /\ \/ settled.kind = "resolved" /\ evaluation = settled.data
           \/ settled.kind = "rejected" /\ error = ErrorMessage(settled.caught))

\* A submission that was abandoned at the timeout shows the timeout as error.
C8_Witness ==
    /\ settled.kind = "rejected"
    /\ settled.caught = TimeoutError
    /\ ~loading
    /\ error = TimeoutError.message

\* The failure classes of the error taxonomy.
FailureClass(err) ==
    IF err.code = "ECONNREFUSED" THEN "refusal"
    ELSE IF err.response.status = 401 THEN "authentication"
    ELSE IF err.response.status = 413 THEN "payload"
    ELSE "generic"

\* The message the interface shows for a class with a fixed message.
ClassMessage(class) ==
    CASE class = "refusal" -> MsgConnect
      [] class = "authentication" -> MsgAuth
      [] class = "payload" -> MsgTooLarge
      [] OTHER -> MsgDefault

\* C9: a failed submission shows a message; it is the fixed message of the
\* class for refusal, authentication and payload failures, and no failure of
\* another class is ever shown with the same message.
C9_DistinctMessagePerClass ==
    [][Rejects =>
         LET e == settled'.caught
         IN  /\ Truthy(error')
             /\ FailureClass(e) # "generic"
                   => error' = ClassMessage(FailureClass(e))
             /\ FailureClass(e) = "generic"
                   => error' \in {e.response.detail, e.message, MsgDefault}
             /\ \A o \in Errors \cup {TimeoutError} :
                   FailureClass(o) # FailureClass(e)
                      => error' # ErrorMessage(o)
             /\ \A c \in {"refusal", "authentication", "payload", "generic"} :
                   c # FailureClass(e) => error' # ClassMessage(c)
      ]_vars

\* A payload-too-large failure is on display with its own message.
C9_Witness ==
    /\ settled.kind = "rejected"
    /\ FailureClass(settled.caught) = "payload"
    /\ error = MsgTooLarge

\* C10 as stated: a detail string in the failure response is the error
\* shown, whatever the status.
C10_DetailVerbatim ==
    [][(Rejects /\ settled'.caught.response.detail # Null)
         => error' = settled'.caught.response.detail]_vars

\* C10 as amended: a non-empty detail string is the error shown when the
\* failure is not a connection refusal and its status is neither 401 nor 413.
C10_DetailVerbatimUnlessClassified ==
    [][(/\ Rejects
        /\ Truthy(settled'.caught.response.detail)
        /\ FailureClass(settled'.caught) = "generic")
         => error' = settled'.caught.response.detail]_vars

\* The detail of a 500 response is on display.
C10_Witness ==
    /\ settled.kind = "rejected"
    /\ settled.caught.response.status = 500
    /\ Truthy(settled.caught.response.detail)
    /\ error = settled.caught.response.detail

\* C11: whatever the error, a failed submission leaves a message in error,
\* loading false and the stage at 0, with no run in progress, the progress
\* view gone and the submit control enabled again as soon as a file is
\* selected.
C11_FailureReturnsToIdle ==
    [][Rejects =>
         /\ Truthy(error')
         /\ loading' = FALSE
         /\ processingStep' = 0
         /\ Active' = {}
         /\ ~ProgressView'
         /\ uploadBtnDisabled' <=> (file' = NoFile)]_vars

\* A failed submission has ended and the same file can be submitted again.
C11_Witness ==
    /\ settled.kind = "rejected"
    /\ Truthy(error)
    /\ ~loading
    /\ processingStep = 0
    /\ file # NoFile
    /\ ~uploadBtnDisabled

\* A failure in none of the classes refusal, authentication, payload and
\* server-reported detail, as the catch clause tells them apart.
Unclassified(err) ==
    /\ FailureClass(err) = "generic"
    /\ ~Truthy(err.response.detail)

\* C12 as stated: an unknown error (an HTTP error without detail, or a
\* thrown value that is no network error at all) shows the generic fallback.
C12_UnknownShowsFallback ==
    [][(/\ Rejects
        /\ Unclassified(settled'.caught)
        /\ settled'.caught.code \notin {"ERR_NETWORK", "ECONNABORTED"})
         => error' = MsgDefault]_vars

\* C12 as amended: such a failure shows error.message when the error has a
\* non-empty message, and the generic fallback only when it has none.
C12_UnknownShowsMessageOrFallback ==
    [][(Rejects /\ Unclassified(settled'.caught))
         => error' = IF Truthy(settled'.caught.message)
                     THEN settled'.caught.message
                     ELSE MsgDefault]_vars

\* An error without code, response and message is shown with the fallback.
C12_Witness ==
    /\ settled.kind = "rejected"
    /\ Unclassified(settled.caught)
    /\ ~Truthy(settled.caught.message)
    /\ error = MsgDefault

\* Success (a result is displayed) or Failure (an error is displayed): the
\* latest submission has finished.
Terminal == ~loading /\ settled.kind # "none"

\* A step of a run of handleFileUpload after one of its awaits: a timer or
\* the request's answer, not a user event.
Continuation == runs' # runs /\ submits' = submits

\* C13: once a submission has finished, no timer and no late response
\* changes evaluation or error, and the result leaves the display only
\* through the back button, which returns to the selection view.
C13_TerminalLeftByUserOnly ==
    [][Terminal =>
         /\ Continuation => (evaluation' = evaluation /\ error' = error)
         /\ (ResultsView /\ ~ResultsView')
               => (~Continuation /\ file' = NoFile /\ SampleView')]_vars

\* After a successful submission the user has gone back to the selection
\* view.
C13_Witness ==
    /\ Terminal
    /\ settled.kind = "resolved"
    /\ evaluation = NoEval
    /\ file = NoFile
    /\ SampleView

\* A PDF document or an image, by its MIME type.
IsPdfOrImage(f) ==
    \/ f.type = <<"application", "/", "pdf">>
    \/ Len(f.type) >= 2 /\ f.type[1] = "image" /\ f.type[2] = "/"

IsApp == lastRequest.path = "/evaluate-startup"
GivenScore ==
    IF IsApp THEN evaluation.overall_score ELSE evaluation.investment_score
ColourOf(score) ==
    IF IsApp THEN App_getScoreColor(score) ELSE getScoreColor(score)

Band3(score) == IF score >= 80 THEN 1 ELSE IF score >= 60 THEN 2 ELSE 3
Band4(score) ==
    IF score >= 80 THEN 1
    ELSE IF score >= 60 THEN 2
    ELSE IF score >= 40 THEN 3
    ELSE 4

LabelColour(label) ==
    CASE label = Low -> "#34A853"
      [] label = Medium -> "#FBBC04"
      [] label = MediumHigh -> "#FF9800"
      [] label = High -> "#EA4335"
NeutralColour == "#9AA0A6"
Labels == {Low, Medium, MediumHigh, High}

\* C15: the risk badge has the colour of the label that equals risk_level up
\* to letter case, each label its own; any other risk_level, the empty and
\* the absent one included, gives the neutral colour; the function has a
\* value for every input.
C15_RiskColourTotal ==
    /\ Cardinality({LabelColour(x) : x \in Labels} \cup {NeutralColour}) = 5
    /\ \A r \in RiskLevels :
          getRiskLevelColor(r) \in
              {LabelColour(x) : x \in Labels} \cup {NeutralColour}
    /\ (rendered.shown /\ ~IsApp) =>
          LET l == evaluation.risk_assessment.risk_level
              same == {x \in Labels :
                          l.present /\ toLowerCase(l.value) = toLowerCase(x)}
          IN  IF same = {}
              THEN rendered.riskBadge = NeutralColour
              ELSE \A x \in same : rendered.riskBadge = LabelColour(x)

\* A label in capitals is on the page in the colour of the label.
C15_Witness ==
    /\ rendered.shown /\ ~IsApp
    /\ evaluation.risk_assessment.risk_level = Some(<<"L", "O", "W">>)
    /\ rendered.riskBadge = LabelColour(Low)

\* C16: the score on the page after a successful response lies in 0..100.
C16_ScoreShownInRange ==
    (rendered.shown /\ ~IsApp /\ settled.kind = "resolved") =>
        /\ rendered.scoreValue[1].kind = "number"
        /\ rendered.scoreValue[1].n \in 0..100

\* The pieces of a rendering that are numbers, and whether it says N/A.
NumbersIn(pieces) ==
    {pieces[k] : k \in {j \in DOMAIN pieces : pieces[j].kind = "number"}}
SaysNotAvailable(pieces) == \E k \in DOMAIN pieces : pieces[k] = Lit("N/A")

\* C17 (as stated): each of the five numeric fields, when absent, is on the
\* page as "not available" and with no number.
C17_AbsentShownNotAvailable ==
    (rendered.shown /\ ~IsApp) =>
        /\ ~evaluation.extracted_data.arr_crore.present =>
              /\ SaysNotAvailable(rendered.revenueValue)
              /\ NumbersIn(rendered.revenueValue) = {}
        /\ ~evaluation.sector_comparison.arr_percentile.present =>
              /\ SaysNotAvailable(rendered.performanceValue)
              /\ NumbersIn(rendered.performanceValue) = {}
        /\ ~evaluation.sector_comparison.team_efficiency.present =>
              /\ SaysNotAvailable(rendered.efficiencyValue)
              /\ NumbersIn(rendered.efficiencyValue) = {}
        /\ ~evaluation.risk_assessment.overall_risk_score.present =>
              /\ SaysNotAvailable(rendered.riskSubtitle)
              /\ NumbersIn(rendered.riskSubtitle) = {}
        /\ ~evaluation.extracted_data.team_size.present =>
              /\ SaysNotAvailable(rendered.revenueSubtitle)
              /\ NumbersIn(rendered.revenueSubtitle) = {}

\* C17 (amended): an absent arr_crore, arr_percentile or team_efficiency is
\* on the page as N/A; an absent overall_risk_score or team_size leaves its
\* place in the line empty; none of the five is on the page as a number.
C17_AbsentNeverANumber ==
    (rendered.shown /\ ~IsApp) =>
        /\ ~evaluation.extracted_data.arr_crore.present =>
              rendered.revenueValue = <<Lit("N/A")>>
        /\ ~evaluation.sector_comparison.arr_percentile.present =>
              rendered.performanceValue = <<Lit("N/A"), Lit("%")>>
        /\ ~evaluation.sector_comparison.team_efficiency.present =>
              rendered.efficiencyValue = <<Lit("N/A")>>
        /\ ~evaluation.risk_assessment.overall_risk_score.present =>
              rendered.riskSubtitle = <<Lit("Score: ")>>
        /\ ~evaluation.extracted_data.team_size.present =>
              rendered.revenueSubtitle = <<Lit("Team: "), Lit(" members")>>

\* A response without any of the five fields is on the page.
C17_Witness ==
    /\ rendered.shown /\ ~IsApp
    /\ ~evaluation.extracted_data.arr_crore.present
    /\ ~evaluation.extracted_data.team_size.present
    /\ ~evaluation.sector_comparison.arr_percentile.present
    /\ ~evaluation.sector_comparison.team_efficiency.present
    /\ ~evaluation.risk_assessment.overall_risk_score.present
    /\ rendered.revenueValue = <<Lit("N/A")>>

\* C18: the red-flag section is on the page, with the flags of the response,
\* exactly when red_flags is present and not empty.
C18_RedFlagsIffNonEmpty ==
    (rendered.shown /\ ~IsApp) =>
        LET f == evaluation.risk_assessment.red_flags
        IN  /\ rendered.redFlagsSection.present
                 <=> (f.present /\ f.value # <<>>)
            /\ rendered.redFlagsSection.present =>
                 rendered.redFlagsSection.value = f.value

\* A response with an empty red_flags list is on the page without the
\* section.
C18_Witness ==
    /\ rendered.shown /\ ~IsApp
    /\ evaluation.risk_assessment.red_flags = Some(<<>>)
    /\ ~rendered.redFlagsSection.present

\* C19: a recommendation that is present and not empty is on the page as
\* it is; otherwise the sentence built from the score and the risk level is.
C19_RecommendationVerbatim ==
    (rendered.shown /\ ~IsApp) =>
        LET rec == evaluation.investment_recommendation
            text == rendered.recommendationText
        IN  IF rec # Null /\ rec # ""
            THEN text = <<Lit(rec)>>
            ELSE /\ Len(text) >= 4
                 /\ text[1] =
                       Lit("Based on our analysis, this startup scores ")
                 /\ text[2] = Num(evaluation.investment_score, 0)
                 /\ text[Len(text)] = Lit(" risk level.")

\* An empty recommendation is on the page as the fallback sentence.
C19_Witness ==
    /\ rendered.shown /\ ~IsApp
    /\ evaluation.investment_recommendation = ""
    /\ Len(rendered.recommendationText) > 1

\* ---------------------------------------------------- claims on the request
\* This step issues a request.
Posts == requests' # requests

\* The body of the request is one multipart field, 'file', holding a File.
SingleFileField(req) ==
    /\ req.method = "POST"
    /\ Len(req.fields) = 1
    /\ req.fields[1].name = "file"
    /\ req.fields[1].value \in Files

C22_OversizeNotSent ==
    lastRequest # NoRequest =>
        \A k \in DOMAIN lastRequest.fields :
            lastRequest.fields[k].value.size <= 10 * 1024 * 1024

\* ------------------------------------------------- claims on the progress
\* C23: the progress step changes only by going one stage up, up to stage 5,
\* or by going back to 0 at the end of the submission; the request is issued
\* at stage 5 and the step stays 5 while the request is outstanding; and every
\* submission that has begun stage 1 reaches stage 5, whatever the network
\* does.
C23_StagesInOrder ==
    /\ [][/\ processingStep' # processingStep =>
                \/ /\ processingStep' = processingStep + 1
                   /\ processingStep' <= NumSteps
                   /\ loading'
                \/ /\ processingStep' = 0
                   /\ ~loading'
          /\ Posts => (processingStep = NumSteps /\ processingStep' = NumSteps)
          /\ (InFlight # {} /\ InFlight' # {}) =>
                processingStep' = NumSteps]_vars
    /\ (loading /\ processingStep = 1) ~> (processingStep = NumSteps)

\* The request is outstanding and the display is at stage 5.
C23_Witness ==
    /\ InFlight # {}
    /\ loading
    /\ processingStep = NumSteps

\* C24: the progress step lies in 0..5, and it is 0 whenever loading is
\* false.
C24_StepZeroUnlessLoading ==
    /\ processingStep \in 0..NumSteps
    /\ ~loading => processingStep = 0

\* A submission has ended and the step is back at 0.
C24_Witness ==
    /\ ~loading
    /\ processingStep = 0
    /\ settled.kind # "none"

\* --------------------------------------------------- claims on the views
\* C25: showSampleData is true exactly when evaluation is null, so exactly
\* one of the sample section and the results section is on the page.
C25_SamplesIffNoEvaluation ==
    /\ showSampleData <=> (evaluation = NoEval)
    /\ SampleView <=> ~ResultsView

\* A sample was opened and an upload then failed: the sample is still shown
\* and the sample section is not.
C25_Witness ==
    /\ settled.kind = "rejected"
    /\ evaluation \in sampleEvaluations
    /\ ~showSampleData
    /\ ResultsView /\ ~SampleView

\* ------------------------------------------- claims on the file in a run
\* The file in the body of the latest request.
CarriedFile == lastRequest.fields[1].value

\* The file a run took when the upload button was clicked is the selected
\* file, and the request of the run carries it.
SendsFileOfSubmit ==
    /\ submits' = submits + 1 => runs'[submits'].formData = file
    /\ Posts =>
          \E id \in RunIds :
             /\ runs[id].pc = "timer"
             /\ runs'[id].pc = "request"
             /\ CarriedFile' = runs[id].formData

\* C26: the request carries the file selected when the button was clicked,
\* and when the result arrives the file named in the drop zone is the file
\* the result is about.
C26_ResultBelongsToShownFile ==
    [][/\ SendsFileOfSubmit
       /\ (Resolves /\ file' # NoFile) => file' = CarriedFile']_vars

\* The first half of C26 on its own.
C26_FileOfSubmitSent == [][SendsFileOfSubmit]_vars

\* ------------------------------------------------- claims on what is kept
\* C27: the step in which a submission fails leaves the selected file and
\* the displayed evaluation as they were; of the cells of the component it
\* writes only error, loading and the progress step.
C27_FailureKeepsFileAndResult ==
    [][Rejects =>
         /\ file' = file
         /\ evaluation' = evaluation
         /\ showSampleData' = showSampleData
         /\ dragActive' = dragActive
         /\ Truthy(error')
         /\ ~loading']_vars

\* A result was on display when a later submission failed: the result and
\* the error are shown together.
C27_Witness ==
    /\ settled.kind = "rejected"
    /\ evaluation \in Payloads \cup App_Payloads
    /\ file # NoFile
    /\ Truthy(error)

\* This step is a drop of a file whose type the drop handler rejects.
RejectedDrop ==
    \/ /\ ~AppMounted
       /\ \E f \in Files : ~IsPdfOrImage(f) /\ dropFile(f)
    \/ /\ AppMounted
       /\ error' = App_MsgBadType
       /\ App_handleDrop

\* C28: a rejected drop writes the error and dragActive and nothing else: the
\* selected file, the evaluation and the runs in progress, with the file they
\* send, are as before.
C28_RejectedDropKeepsFile ==
    [][RejectedDrop =>
         /\ error' \in {MsgBadType, App_MsgBadType}
         /\ file' = file
         /\ evaluation' = evaluation
         /\ runs' = runs
         /\ lastRequest' = lastRequest
         /\ loading' = loading]_vars

\* A drop was rejected while a file was selected and its request was out:
\* the request carries the selected file.
C28_Witness ==
    /\ error \in {MsgBadType, App_MsgBadType}
    /\ file # NoFile
    /\ InFlight # {}
    /\ CarriedFile = file

\* C29: the revenue card says N/A exactly when arr_crore is absent, and shows
\* every number, 0 included, as an amount with one decimal.
C29_NotAvailableOnlyWhenAbsent ==
    (rendered.shown /\ ~IsApp) =>
        LET arr == evaluation.extracted_data.arr_crore
        IN  IF arr.present
            THEN rendered.revenueValue =
                    <<Lit("Rs"), toFixed(arr.value, 1), Lit("Cr")>>
            ELSE rendered.revenueValue = <<Lit("N/A")>>

\* ------------------------------------------- claims on the deploy scripts
\* C30: once a command of a script has failed the script has stopped there:
\* no later command has run and the success message is not printed; the
\* message is printed only after every command has succeeded.
C30_StopsAtFirstFailure ==
    /\ deploy.failed # {} =>
          /\ deploy.exited
          /\ deploy.failed = {deploy.pc}
          /\ ~deploy.ranAfterFailure
          /\ deploy.printed = 0
    /\ deploy.printed # 0 =>
          /\ deploy.failed = {}
          /\ deploy.pc = Len(deploy.script.steps) + 1

\* C30 for the scripts that run under `set -e` only.
C30_ErrexitScriptsStop == deploy.script.errexit => C30_StopsAtFirstFailure

====

